---- MODULE Spec2Model ----
(***************************************************************************)
(* Commission calculation and payment settlement of API_BeMyNet.           *)
(*                                                                         *)
(* Two applications write the same tables (ventes, affiliations, clients,  *)
(* users): the FastAPI application (app/routers) through SQLAlchemy        *)
(* sessions, and the Flask application (app/routes) through raw SQL.       *)
(*                                                                         *)
(* Money is counted in cents.  A rate is counted in hundredths of a        *)
(* percent (pourcentage is DECIMAL(5,2), so pourcentage * 100 is an        *)
(* integer).  The product of an amount in cents and such a rate is an      *)
(* exact number of 1/10000 cent ("micro" units below): the FastAPI         *)
(* calculator returns unrounded Decimals, which the DECIMAL(10,2) columns  *)
(* round when a row is written.                                            *)
(***************************************************************************)
EXTENDS Integers, FiniteSets, Sequences, Bags, TLC

(***************************************************************************)
(* Bounds of the model.                                                    *)
(***************************************************************************)
\* rows the ventes table may receive in one behaviour (SERIAL ids 1..MaxVentes)
MaxVentes == 2

\* the calculators are called with every amount of 0..MaxMontant cents
MaxMontant == 30

\* rows the commerciaux and the partenaires table may each receive
MaxPartners == 2

(***************************************************************************)
(* Values.                                                                 *)
(***************************************************************************)
\* SQL NULL / Python None of a string column
NULL == "NULL"

\* statut_paiement_enum
Statuts == {"paye", "en_attente", "rembourse"}

\* request workers that may run concurrently (one SQLAlchemy session each)
Procs == {"w1", "w2"}

\* ids of Stripe payment intents and of Stripe checkout sessions
PaymentIntents == {"pi_0", "pi_1"}
CheckoutSessions == {"cs_1"}
PaymentRefs == PaymentIntents \cup CheckoutSessions

\* the one freelancer and the one client of the model
FreelanceId == 1
ClientId == 1

\* ids of the rows of commerciaux / partenaires; 9 names no row
CommercialIds == {1}
PartenaireIds == {1}
MissingId == 9

\* pourcentage of a commercial / partenaire row, in hundredths of a percent
\* (5.00 % and 2.50 %)
CommercialPourcentage(id) == 500
PartenairePourcentage(id) == 250

\* micro units per cent: a rate is pourcentage / 100, pourcentage has 2 decimals
Micro == 100 * 100

(***************************************************************************)
(* Rounding.                                                               *)
(***************************************************************************)
Abs(n) == IF n < 0 THEN 0 - n ELSE n

Sign(n) == IF n < 0 THEN 0 - 1 ELSE 1

\* Decimal.quantize(Decimal('0.01')) under the default context: ROUND_HALF_EVEN.
\* n is a number of 1/unit cents; the result is in cents.
QuantizeHalfEven(n, unit) ==
    LET q == Abs(n) \div unit
        r == Abs(n) % unit
        up == \/ 2 * r > unit
              \/ 2 * r = unit /\ q % 2 = 1
    IN  Sign(n) * (IF up THEN q + 1 ELSE q)

\* A DECIMAL(10,2) column rounds an exact value half away from zero.
StoreNumeric(n, unit) ==
    LET q == Abs(n) \div unit
        r == Abs(n) % unit
    IN  Sign(n) * (IF 2 * r >= unit THEN q + 1 ELSE q)

(***************************************************************************)
(* app/utils/stripe.py: calculate_commissions_with_partners.               *)
(* amount, discount in cents; a rate in hundredths of a percent, 0 for     *)
(* None (both are falsy in `if commercial_rate:`).  Results in micro units.*)
(***************************************************************************)
PlatformFeeRate == 1000

\* a calculator that would take the fees on the gross amount
calculate_commissions_on_gross(amount, discount, commercial_rate, partner_rate) ==
    LET discounted_amount == amount - discount
        platform_fee == amount * PlatformFeeRate
        commercial_commission == IF commercial_rate # 0 THEN amount * commercial_rate ELSE 0
        partner_commission == IF partner_rate # 0 THEN amount * partner_rate ELSE 0
        total_fees == platform_fee + commercial_commission + partner_commission
    IN  [ gross_amount |-> amount * Micro,
          discount |-> discount * Micro,
          discounted_amount |-> discounted_amount * Micro,
          platform_fee |-> platform_fee,
          commercial_commission |-> commercial_commission,
          partner_commission |-> partner_commission,
          total_fees |-> total_fees,
          net_amount |-> discounted_amount * Micro - total_fees ]

calculate_commissions_with_partners(amount, discount, commercial_rate, partner_rate) ==
    LET discounted_amount == amount - discount
        platform_fee == discounted_amount * PlatformFeeRate
        commercial_commission ==
            IF commercial_rate # 0 THEN discounted_amount * commercial_rate ELSE 0
        partner_commission ==
            IF partner_rate # 0 THEN discounted_amount * partner_rate ELSE 0
        total_fees == platform_fee + commercial_commission + partner_commission
    IN  [ gross_amount |-> amount * Micro,
          discount |-> discount * Micro,
          discounted_amount |-> discounted_amount * Micro,
          platform_fee |-> platform_fee,
          commercial_commission |-> commercial_commission,
          partner_commission |-> partner_commission,
          total_fees |-> total_fees,
          net_amount |-> discounted_amount * Micro - total_fees ]

(***************************************************************************)
(* app/routes/sales_routes.py: calculate_commissions.                      *)
(* montant in cents; commercial_id / partenaire_id 0 for None; the stored  *)
(* pourcentage of each party (0 when the row is missing or the column is   *)
(* NULL or 0).  The four results are quantized to cents.                   *)
(***************************************************************************)
PlateformeRateDefault == 1500
\* a platform rate that would not be lowered when both parties are present
PlateformeRateUnadjusted == PlateformeRateDefault
PlateformeRateBoth == 800
PlateformeRateCommercial == 1000
PlateformeRatePartenaire == 1300
CommercialeRateDefault == 500
PartenaireRateDefault == 200

calculate_commissions(montant, commercial_id, partenaire_id, commercial_pct, partenaire_pct) ==
    LET plateforme_rate ==
            IF commercial_id # 0 /\ partenaire_id # 0 THEN PlateformeRateBoth
            ELSE IF commercial_id # 0 THEN PlateformeRateCommercial
            ELSE IF partenaire_id # 0 THEN PlateformeRatePartenaire
            ELSE PlateformeRateDefault
        commerciale_rate ==
            IF commercial_id # 0 /\ commercial_pct # 0 THEN commercial_pct
            ELSE CommercialeRateDefault
        partenaire_rate ==
            IF partenaire_id # 0 /\ partenaire_pct # 0 THEN partenaire_pct
            ELSE PartenaireRateDefault
        commission_plateforme == montant * plateforme_rate
        commission_commerciale == IF commercial_id # 0 THEN montant * commerciale_rate ELSE 0
        commission_partenaire == IF partenaire_id # 0 THEN montant * partenaire_rate ELSE 0
        montant_net_freelance ==
            montant * Micro - commission_plateforme - commission_commerciale
                - commission_partenaire
    IN  [ plateforme |-> QuantizeHalfEven(commission_plateforme, Micro),
          commerciale |-> QuantizeHalfEven(commission_commerciale, Micro),
          partenaire |-> QuantizeHalfEven(commission_partenaire, Micro),
          freelance |-> QuantizeHalfEven(montant_net_freelance, Micro) ]

(***************************************************************************)
(* Stripe events.  An event is identified by the id of its object and a    *)
(* redelivery carries the same payload.                                     *)
(***************************************************************************)
\* payment_intent.succeeded: data.object of the payment intent P.
\* pi_0 carries no metadata (a payment that is not one of this platform).
PaymentIntentObject(P) ==
    [ id |-> P,
      amount |-> 1001,
      has_metadata |-> (P # "pi_0"),
      freelance_id |-> FreelanceId,
      client_id |-> ClientId,
      commercial_id |-> 1,
      partenaire_id |-> 0 ]

\* checkout.session.completed: data.object of the session S, with the
\* application_fee_amount of its payment intent (stripe.PaymentIntent.retrieve)
CheckoutSessionObject(S) ==
    [ id |-> S,
      amount_total |-> 2000,
      application_fee_amount |-> 300,
      freelance_id |-> FreelanceId,
      client_id |-> ClientId ]

(***************************************************************************)
(* State.                                                                  *)
(***************************************************************************)
VARIABLES
    ventes,          \* table ventes: id -> row
    nextId,          \* next value of the SERIAL id of ventes
    affiliations,    \* table affiliations: bag of rows (ids left out)
    lifetime_value,  \* clients.lifetime_value of the client, cents
    total_revenue,   \* users.total_revenue of the freelancer, cents
    req,             \* per worker: the request it is running and its locals
    response,        \* what the last finished request answered: "success" (2xx),
                     \* "error" (HTTP 200 with status error, FastAPI webhook),
                     \* "bad_request" (400), "not_found" (404), "server_error" (500),
                     \* "validation_error" (422, a body the schema refuses)
    settled,         \* payment intents whose event handle_payment_success settled
    replayed,        \* settled payment intents whose event was delivered again
    calc,            \* a call of a commission calculator: its arguments and result
    commerciaux,     \* table commerciaux: id -> pourcentage, hundredths of a percent
    partenaires      \* table partenaires: id -> pourcentage, hundredths of a percent

vars == <<ventes, nextId, affiliations, lifetime_value, total_revenue, req, response,
          settled, replayed, calc, commerciaux, partenaires>>

Idle == [ pc |-> "idle", ref |-> NULL, montant |-> 0, discount |-> 0,
          commercial_id |-> 0, partenaire_id |-> 0, sale_id |-> 0, revenue_read |-> 0 ]

\* no calculator call under observation
NoCall == [ fn |-> "none", montant |-> 0, discount |-> 0, commercial_id |-> 0,
            partenaire_id |-> 0, commercial_pct |-> 0, partenaire_pct |-> 0,
            plateforme |-> 0, commerciale |-> 0, partenaire |-> 0, freelance |-> 0,
            application_fee_amount |-> 0,
            settled_plateforme |-> 0, settled_commerciale |-> 0,
            settled_partenaire |-> 0 ]

Init ==
    /\ ventes = << >>
    /\ nextId = 1
    /\ affiliations = EmptyBag
    /\ lifetime_value = 0
    /\ total_revenue = 0
    /\ req = [p \in Procs |-> Idle]
    /\ response = "none"
    /\ settled = {}
    /\ replayed = {}
    /\ calc = NoCall
    /\ commerciaux = [id \in CommercialIds |-> CommercialPourcentage(id)]
    /\ partenaires = [id \in PartenaireIds |-> PartenairePourcentage(id)]

\* rows of ventes carrying the payment reference ref
SalesWithRef(ref) == {id \in DOMAIN ventes : ventes[id].stripe_payment_id = ref}

\* INSERT INTO ventes: the table with one more row, under the next SERIAL id
InsertVente(row) == [id \in DOMAIN ventes \cup {nextId} |-> IF id = nextId THEN row ELSE ventes[id]]

\* workers between their lookup / first commit and the INSERT they will issue
PendingInserts == Cardinality({p \in Procs : req[p].pc = "hps_queried"})

\* room left in the model for one more row
RoomForInsert == nextId + PendingInserts <= MaxVentes

\* the Affiliation rows a sale with these parties gets
AffiliationRows(sale_id, commercial_id, partenaire_id, commercial_commission, partner_commission) ==
    (IF commercial_id # 0
        THEN SetToBag({[source_type |-> "commercial", source_id |-> commercial_id,
                        vente_id |-> sale_id, commission |-> commercial_commission]})
        ELSE EmptyBag)
    (+)
    (IF partenaire_id # 0
        THEN SetToBag({[source_type |-> "partenaire", source_id |-> partenaire_id,
                        vente_id |-> sale_id, commission |-> partner_commission]})
        ELSE EmptyBag)

\* the rate handle_payment_success / create_sale pass for a party id
\* (pourcentage / 100 if the row exists and pourcentage is truthy, else None)
CommercialRate(id) == IF id \in CommercialIds THEN CommercialPourcentage(id) ELSE 0
PartnerRate(id) == IF id \in PartenaireIds THEN PartenairePourcentage(id) ELSE 0

(***************************************************************************)
(* FastAPI: POST /stripe/webhook (routers/stripe.py).                      *)
(* handle_payment_success commits twice, so it is three steps of a worker: *)
(* the lookup of the existing sale, the commit of the sale with the        *)
(* accumulators, the commit of the affiliations.                           *)
(***************************************************************************)
\* the commission_data handle_payment_success computes for the intent P
IntentCommissions(P) ==
    LET pi == PaymentIntentObject(P)
    IN  calculate_commissions_with_partners(pi.amount, 0,
            CommercialRate(pi.commercial_id), PartnerRate(pi.partenaire_id))

\* the Vente handle_payment_success adds for the intent P
NewStripeSale(P) ==
    LET pi == PaymentIntentObject(P)
        commission_data == IntentCommissions(P)
    IN  [ user_id |-> pi.freelance_id,
          client_id |-> pi.client_id,
          montant |-> pi.amount,
          discount_applied |-> 0,
          source |-> "stripe",
          commission_plateforme |-> StoreNumeric(commission_data.platform_fee, Micro),
          commission_commerciale |-> StoreNumeric(commission_data.commercial_commission, Micro),
          commission_partenaire |-> StoreNumeric(commission_data.partner_commission, Micro),
          montant_net_freelance |-> StoreNumeric(commission_data.net_amount, Micro),
          commercial_id |-> pi.commercial_id,
          partenaire_id |-> pi.partenaire_id,
          stripe_payment_id |-> P,
          statut_paiement |-> "paye" ]

\* a lookup that would match only the sales still waiting for their payment
existing_sale_unpaid(P) ==
    {id \in SalesWithRef(P) : ventes[id].statut_paiement # "paye"}

\* the rows the lookup `Vente.stripe_payment_id == payment_intent["id"]` matches
existing_sale(P) == SalesWithRef(P)

\* stripe_webhook up to the first commit point of handle_payment_success.
\* signature_ok: whether verify_stripe_webhook accepts the request.
StripeWebhook(p, P, signature_ok) ==
    /\ req[p].pc = "idle"
    /\ UNCHANGED <<calc, commerciaux, partenaires>>
    /\ IF ~signature_ok
         THEN \* verify_stripe_webhook raises (bad signature or payload); the
              \* handler catches it and answers HTTP 200 with status error
              /\ response' = "error"
              /\ UNCHANGED <<ventes, nextId, affiliations, lifetime_value, total_revenue,
                             req, settled, replayed>>
       ELSE IF ~PaymentIntentObject(P).has_metadata
         THEN \* `if not metadata: return`
              /\ response' = "success"
              /\ UNCHANGED <<ventes, nextId, affiliations, lifetime_value, total_revenue,
                             req, settled, replayed>>
       ELSE IF existing_sale(P) # {}
         THEN \* replay: .first() of the matching rows, set to paye if needed
              /\ \E id \in existing_sale(P) :
                    ventes' = [ventes EXCEPT ![id].statut_paiement = "paye"]
              /\ response' = "success"
              /\ replayed' = IF P \in settled THEN replayed \cup {P} ELSE replayed
              /\ UNCHANGED <<nextId, affiliations, lifetime_value, total_revenue,
                             req, settled>>
       ELSE \* no sale yet: the freelancer is read, the sale is built
              /\ RoomForInsert
              /\ req' = [req EXCEPT ![p] =
                            [Idle EXCEPT !.pc = "hps_queried", !.ref = P,
                                         !.revenue_read = total_revenue]]
              /\ UNCHANGED <<ventes, nextId, affiliations, lifetime_value, total_revenue,
                             response, settled, replayed>>

\* db.add(new_sale), the accumulators, first db.commit()
HandlePaymentSuccess_CommitSale(p) ==
    /\ req[p].pc = "hps_queried"
    /\ LET P == req[p].ref
           pi == PaymentIntentObject(P)
           commission_data == IntentCommissions(P)
       IN  /\ ventes' = InsertVente(NewStripeSale(P))
           /\ nextId' = nextId + 1
           /\ lifetime_value' = lifetime_value + pi.amount
           /\ total_revenue' =
                 StoreNumeric(req[p].revenue_read * Micro + commission_data.net_amount, Micro)
           /\ req' = [req EXCEPT ![p].pc = "hps_committed", ![p].sale_id = nextId]
    /\ UNCHANGED <<affiliations, response, settled>>
    /\ UNCHANGED <<replayed, calc, commerciaux, partenaires>>

\* the affiliations, second db.commit(); the webhook answers
HandlePaymentSuccess_CommitAffiliations(p) ==
    /\ req[p].pc = "hps_committed"
    /\ LET P == req[p].ref
           pi == PaymentIntentObject(P)
           commission_data == IntentCommissions(P)
           needed == AffiliationRows(req[p].sale_id, pi.commercial_id, pi.partenaire_id,
                        StoreNumeric(commission_data.commercial_commission, Micro),
                        StoreNumeric(commission_data.partner_commission, Micro))
       IN  IF req[p].sale_id \in DOMAIN ventes \/ needed = EmptyBag
             THEN /\ affiliations' = affiliations (+) needed
                  /\ response' = "success"
                  /\ settled' = settled \cup {P}
             ELSE \* the sale was deleted meanwhile: the foreign key vente_id fails
                  /\ response' = "error"
                  /\ UNCHANGED <<affiliations, settled>>
    /\ req' = [req EXCEPT ![p] = Idle]
    /\ UNCHANGED <<ventes, nextId, lifetime_value, total_revenue>>
    /\ UNCHANGED <<replayed, calc, commerciaux, partenaires>>

(***************************************************************************)
(* FastAPI: /sales (routers/sales.py).                                     *)
(***************************************************************************)
\* montant / discount_applied of the bodies sent to the sale endpoints, cents
SaleMontants == {1000}
SaleDiscounts == {250}

\* <<commercial_id, partenaire_id>> of the bodies: no party, both parties,
\* a commercial_id that names no row
PartyChoices == {<<0, 0>>, <<1, 1>>, <<MissingId, 0>>}

\* the commission_data create_sale computes
SaleCommissions(montant, discount, commercial_id, partenaire_id) ==
    calculate_commissions_with_partners(montant, discount,
        CommercialRate(commercial_id), PartnerRate(partenaire_id))

\* the Vente create_sale adds
NewSale(montant, discount, commercial_id, partenaire_id) ==
    LET commission_data == SaleCommissions(montant, discount, commercial_id, partenaire_id)
    IN  [ user_id |-> FreelanceId,
          client_id |-> ClientId,
          montant |-> montant,
          discount_applied |-> discount,
          source |-> "manuel",
          commission_plateforme |-> StoreNumeric(commission_data.platform_fee, Micro),
          commission_commerciale |-> StoreNumeric(commission_data.commercial_commission, Micro),
          commission_partenaire |-> StoreNumeric(commission_data.partner_commission, Micro),
          montant_net_freelance |-> StoreNumeric(commission_data.net_amount, Micro),
          commercial_id |-> commercial_id,
          partenaire_id |-> partenaire_id,
          stripe_payment_id |-> NULL,
          statut_paiement |-> "en_attente" ]

\* create_sale up to its first commit: the checks, the INSERT of the sale
CreateSale(p, montant, discount, commercial_id, partenaire_id) ==
    /\ req[p].pc = "idle"
    /\ IF montant < 0 \/ discount < 0
         THEN \* VenteBase: montant and discount_applied are Field(ge=0)
              /\ response' = "validation_error"
              /\ UNCHANGED <<ventes, nextId, req>>
       ELSE IF \/ commercial_id # 0 /\ commercial_id \notin CommercialIds
               \/ partenaire_id # 0 /\ partenaire_id \notin PartenaireIds
         THEN \* HTTP 404 "Commercial not found" / "Partner not found"
              /\ response' = "not_found"
              /\ UNCHANGED <<ventes, nextId, req>>
         ELSE /\ RoomForInsert
              /\ ventes' = InsertVente(NewSale(montant, discount, commercial_id, partenaire_id))
              /\ nextId' = nextId + 1
              /\ req' = [req EXCEPT ![p] =
                            [Idle EXCEPT !.pc = "cs_inserted", !.montant = montant,
                                         !.discount = discount,
                                         !.commercial_id = commercial_id,
                                         !.partenaire_id = partenaire_id,
                                         !.sale_id = nextId]]
              /\ UNCHANGED response
    /\ UNCHANGED <<affiliations, lifetime_value, total_revenue, settled>>
    /\ UNCHANGED <<replayed, calc, commerciaux, partenaires>>

\* create_sale: client.lifetime_value, freelancer.total_revenue, second commit
CreateSale_Accumulate(p) ==
    /\ req[p].pc = "cs_inserted"
    /\ LET commission_data == SaleCommissions(req[p].montant, req[p].discount,
                                  req[p].commercial_id, req[p].partenaire_id)
       IN  /\ lifetime_value' = lifetime_value + req[p].montant
           /\ total_revenue' =
                 StoreNumeric(total_revenue * Micro + commission_data.net_amount, Micro)
    /\ req' = [req EXCEPT ![p].pc = "cs_accumulated"]
    /\ UNCHANGED <<ventes, nextId, affiliations, response, settled>>
    /\ UNCHANGED <<replayed, calc, commerciaux, partenaires>>

\* create_sale: the affiliations, third commit, the answer
CreateSale_Affiliations(p) ==
    /\ req[p].pc = "cs_accumulated"
    /\ LET commission_data == SaleCommissions(req[p].montant, req[p].discount,
                                  req[p].commercial_id, req[p].partenaire_id)
           needed == AffiliationRows(req[p].sale_id, req[p].commercial_id,
                        req[p].partenaire_id,
                        StoreNumeric(commission_data.commercial_commission, Micro),
                        StoreNumeric(commission_data.partner_commission, Micro))
       IN  IF req[p].sale_id \in DOMAIN ventes
             THEN /\ affiliations' = affiliations (+) needed
                  /\ response' = "success"
             ELSE \* the sale was deleted meanwhile: nothing to attach or return
                  /\ response' = "server_error"
                  /\ UNCHANGED affiliations
    /\ req' = [req EXCEPT ![p] = Idle]
    /\ UNCHANGED <<ventes, nextId, lifetime_value, total_revenue, settled>>
    /\ UNCHANGED <<replayed, calc, commerciaux, partenaires>>

\* the values a body of PUT /sales/{id} may give a field; UNSET: field not sent
UNSET == "UNSET"
StatutChoices == Statuts \cup {UNSET}
RefChoices == {"pi_1", "cs_1", UNSET}

\* update_sale: setattr of every field sent, commit
\* an update that would also clear the freelancer net of the sale it refunds
UpdateSaleClearingNet(sale_id, statut_paiement, stripe_payment_id) ==
    /\ IF sale_id \notin DOMAIN ventes
         THEN /\ response' = "not_found"
              /\ UNCHANGED ventes
         ELSE /\ ventes' = [ventes EXCEPT
                    ![sale_id].statut_paiement =
                        IF statut_paiement = UNSET THEN @ ELSE statut_paiement,
                    ![sale_id].stripe_payment_id =
                        IF stripe_payment_id = UNSET THEN @ ELSE stripe_payment_id,
                    ![sale_id].montant_net_freelance =
                        IF statut_paiement = "rembourse" THEN 0 ELSE @]
              /\ response' = "success"
    /\ UNCHANGED <<nextId, affiliations, lifetime_value, total_revenue, req, settled>>
    /\ UNCHANGED <<replayed, calc, commerciaux, partenaires>>

\* an update that would take a refunded sale back out of the client's
\* lifetime value
UpdateSaleReversing(sale_id, statut_paiement, stripe_payment_id) ==
    /\ IF sale_id \notin DOMAIN ventes
         THEN /\ response' = "not_found"
              /\ UNCHANGED <<ventes, lifetime_value>>
         ELSE /\ ventes' = [ventes EXCEPT
                    ![sale_id].statut_paiement =
                        IF statut_paiement = UNSET THEN @ ELSE statut_paiement,
                    ![sale_id].stripe_payment_id =
                        IF stripe_payment_id = UNSET THEN @ ELSE stripe_payment_id]
              /\ lifetime_value' =
                    IF statut_paiement = "rembourse"
                          /\ ventes[sale_id].statut_paiement # "rembourse"
                      THEN lifetime_value - ventes[sale_id].montant
                      ELSE lifetime_value
              /\ response' = "success"
    /\ UNCHANGED <<nextId, affiliations, total_revenue, req, settled>>
    /\ UNCHANGED <<replayed, calc, commerciaux, partenaires>>

UpdateSale(sale_id, statut_paiement, stripe_payment_id) ==
    /\ IF sale_id \notin DOMAIN ventes
         THEN /\ response' = "not_found"
              /\ UNCHANGED ventes
         ELSE /\ ventes' = [ventes EXCEPT
                    ![sale_id].statut_paiement =
                        IF statut_paiement = UNSET THEN @ ELSE statut_paiement,
                    ![sale_id].stripe_payment_id =
                        IF stripe_payment_id = UNSET THEN @ ELSE stripe_payment_id]
              /\ response' = "success"
    /\ UNCHANGED <<nextId, affiliations, lifetime_value, total_revenue, req, settled>>
    /\ UNCHANGED <<replayed, calc, commerciaux, partenaires>>

\* delete_sale: the affiliations of the sale, the sale, commit
DeleteSale(sale_id) ==
    /\ IF sale_id \notin DOMAIN ventes
         THEN /\ response' = "not_found"
              /\ UNCHANGED <<ventes, affiliations>>
         ELSE /\ affiliations' =
                    [a \in {b \in BagToSet(affiliations) : b.vente_id # sale_id}
                        |-> affiliations[a]]
              /\ ventes' = [id \in DOMAIN ventes \ {sale_id} |-> ventes[id]]
              /\ response' = "success"
    /\ UNCHANGED <<nextId, lifetime_value, total_revenue, req, settled>>
    /\ UNCHANGED <<replayed, calc, commerciaux, partenaires>>

(***************************************************************************)
(* Flask: POST /sales (routes/sales_routes.py), one transaction.           *)
(***************************************************************************)
\* stored pourcentage of a party id, 0 when there is no such row
StoredCommercialPct(id) == IF id \in CommercialIds THEN CommercialPourcentage(id) ELSE 0
StoredPartenairePct(id) == IF id \in PartenaireIds THEN PartenairePourcentage(id) ELSE 0

FlaskCreateSale(montant, discount, statut_paiement, commercial_id, partenaire_id) ==
    LET commissions == calculate_commissions(montant, commercial_id, partenaire_id,
                           StoredCommercialPct(commercial_id),
                           StoredPartenairePct(partenaire_id))
        row == [ user_id |-> FreelanceId,
                 client_id |-> ClientId,
                 montant |-> montant,
                 discount_applied |-> discount,
                 source |-> "manuel",
                 commission_plateforme |-> commissions.plateforme,
                 commission_commerciale |-> commissions.commerciale,
                 commission_partenaire |-> commissions.partenaire,
                 montant_net_freelance |-> commissions.freelance,
                 commercial_id |-> commercial_id,
                 partenaire_id |-> partenaire_id,
                 stripe_payment_id |-> NULL,
                 statut_paiement |-> statut_paiement ]
    IN  /\ IF \/ commercial_id # 0 /\ commercial_id \notin CommercialIds
              \/ partenaire_id # 0 /\ partenaire_id \notin PartenaireIds
             THEN \* the INSERT breaks the foreign key: HTTP 500, nothing committed
                  /\ response' = "server_error"
                  /\ UNCHANGED <<ventes, nextId, affiliations>>
             ELSE /\ RoomForInsert
                  /\ ventes' = InsertVente(row)
                  /\ nextId' = nextId + 1
                  /\ affiliations' = affiliations (+)
                        AffiliationRows(nextId, commercial_id, partenaire_id,
                                        commissions.commerciale, commissions.partenaire)
                  /\ response' = "success"
        /\ UNCHANGED <<lifetime_value, total_revenue, req, settled>>
        /\ UNCHANGED <<replayed, calc, commerciaux, partenaires>>

(***************************************************************************)
(* Flask: POST /stripe/webhook (routes/stripe_routes.py), one transaction. *)
(* verification: what the signature step did with the request; "skipped"   *)
(* is the branch taken without header and without configured secret.       *)
(***************************************************************************)
Verifications == {"verified", "rejected", "skipped"}

\* utils/stripe_utils.py: the parameters of the INSERT, amounts in cents
handle_checkout_session_completed(S) ==
    LET session == CheckoutSessionObject(S)
    IN  [ client_id |-> session.client_id,
          freelance_id |-> session.freelance_id,
          montant |-> session.amount_total,
          commission_plateforme |-> session.application_fee_amount,
          stripe_payment_id |-> session.id,
          statut_paiement |-> "paye" ]

FlaskStripeWebhook(S, verification) ==
    LET session_data == handle_checkout_session_completed(S)
        row == [ user_id |-> session_data.freelance_id,
                 client_id |-> session_data.client_id,
                 montant |-> session_data.montant,
                 discount_applied |-> 0,
                 source |-> "stripe",
                 commission_plateforme |-> session_data.commission_plateforme,
                 commission_commerciale |-> 0,
                 commission_partenaire |-> 0,
                 montant_net_freelance |-> 0,
                 commercial_id |-> 0,
                 partenaire_id |-> 0,
                 stripe_payment_id |-> session_data.stripe_payment_id,
                 statut_paiement |-> session_data.statut_paiement ]
    IN  /\ IF verification = "rejected"
             THEN \* HTTP 400 "Invalid payload" / "Invalid signature"
                  /\ response' = "bad_request"
                  /\ UNCHANGED <<ventes, nextId>>
             ELSE /\ RoomForInsert
                  /\ ventes' = InsertVente(row)
                  /\ nextId' = nextId + 1
                  /\ response' = "success"
        /\ UNCHANGED <<affiliations, lifetime_value, total_revenue, req, settled>>
        /\ UNCHANGED <<replayed, calc, commerciaux, partenaires>>

(***************************************************************************)
(* Flask: /commerciaux and /partenaires (routes/partner_routes.py), one    *)
(* transaction each.  A body gives pourcentage as a number, counted here   *)
(* in thousandths of a percent; the DECIMAL(5,2) column rounds it to       *)
(* hundredths.  Bodies carry the other required fields and an email and a  *)
(* tracking code no other row has; the caller may update the row.          *)
(***************************************************************************)
\* the highest pourcentage of a commercial / of a partenaire, percent
CommercialMax == 20
PartenaireMax == 15

\* a check that would only refuse negative values
PourcentageNotNegative(pourcentage, max) == 0 <= pourcentage

\* `0 <= pourcentage <= max`
PourcentageInRange(pourcentage, max) == 0 <= pourcentage /\ pourcentage <= max * 1000

\* pourcentage of the bodies, thousandths of a percent
PourcentageChoices ==
    {0 - 4, 0, 5000, 12345, 14996, 15000, 15004, 19996, 20000, 20004, 25000}

\* INSERT INTO commerciaux / partenaires: the table with one more row
InsertPartner(table, pourcentage) ==
    [id \in DOMAIN table \cup {Cardinality(DOMAIN table) + 1} |->
        IF id \in DOMAIN table THEN table[id] ELSE StoreNumeric(pourcentage, 10)]

create_commercial(pourcentage) ==
    /\ IF ~PourcentageInRange(pourcentage, CommercialMax)
         THEN /\ response' = "bad_request"
              /\ UNCHANGED commerciaux
         ELSE /\ Cardinality(DOMAIN commerciaux) < MaxPartners
              /\ commerciaux' = InsertPartner(commerciaux, pourcentage)
              /\ response' = "success"
    /\ UNCHANGED <<ventes, nextId, affiliations, lifetime_value, total_revenue, req,
                   settled, replayed, calc, partenaires>>

\* in_data: `'pourcentage' in data`; a body without it changes other fields only
update_commercial(commercial_id, in_data, pourcentage) ==
    /\ IF commercial_id \notin DOMAIN commerciaux
         THEN /\ response' = "not_found"
              /\ UNCHANGED commerciaux
       ELSE IF ~in_data
         THEN /\ response' = "success"
              /\ UNCHANGED commerciaux
       ELSE IF ~PourcentageInRange(pourcentage, CommercialMax)
         THEN /\ response' = "bad_request"
              /\ UNCHANGED commerciaux
         ELSE /\ commerciaux' =
                    [commerciaux EXCEPT ![commercial_id] = StoreNumeric(pourcentage, 10)]
              /\ response' = "success"
    /\ UNCHANGED <<ventes, nextId, affiliations, lifetime_value, total_revenue, req,
                   settled, replayed, calc, partenaires>>

create_partenaire(pourcentage) ==
    /\ IF ~PourcentageInRange(pourcentage, PartenaireMax)
         THEN /\ response' = "bad_request"
              /\ UNCHANGED partenaires
         ELSE /\ Cardinality(DOMAIN partenaires) < MaxPartners
              /\ partenaires' = InsertPartner(partenaires, pourcentage)
              /\ response' = "success"
    /\ UNCHANGED <<ventes, nextId, affiliations, lifetime_value, total_revenue, req,
                   settled, replayed, calc, commerciaux>>

update_partenaire(partenaire_id, in_data, pourcentage) ==
    /\ IF partenaire_id \notin DOMAIN partenaires
         THEN /\ response' = "not_found"
              /\ UNCHANGED partenaires
       ELSE IF ~in_data
         THEN /\ response' = "success"
              /\ UNCHANGED partenaires
       ELSE IF ~PourcentageInRange(pourcentage, PartenaireMax)
         THEN /\ response' = "bad_request"
              /\ UNCHANGED partenaires
         ELSE /\ partenaires' =
                    [partenaires EXCEPT ![partenaire_id] = StoreNumeric(pourcentage, 10)]
              /\ response' = "success"
    /\ UNCHANGED <<ventes, nextId, affiliations, lifetime_value, total_revenue, req,
                   settled, replayed, calc, commerciaux>>

(***************************************************************************)
(* The system: requests of both applications, in any order; the steps of   *)
(* the workers interleave at their commits.                                *)
(***************************************************************************)
\* the worker of the sequential system
Worker == "w1"

Next ==
    \/ \E P \in PaymentIntents, ok \in BOOLEAN : StripeWebhook(Worker, P, ok)
    \/ HandlePaymentSuccess_CommitSale(Worker)
    \/ HandlePaymentSuccess_CommitAffiliations(Worker)
    \/ \E m \in SaleMontants, d \in SaleDiscounts, c \in PartyChoices :
          CreateSale(Worker, m, d, c[1], c[2])
    \/ CreateSale_Accumulate(Worker)
    \/ CreateSale_Affiliations(Worker)
    \/ \E id \in 1..MaxVentes, st \in StatutChoices, ref \in RefChoices :
          UpdateSale(id, st, ref)
    \/ \E id \in 1..MaxVentes : DeleteSale(id)
    \/ \E m \in SaleMontants, d \in SaleDiscounts, st \in Statuts, c \in PartyChoices :
          FlaskCreateSale(m, d, st, c[1], c[2])
    \/ \E S \in CheckoutSessions, v \in Verifications : FlaskStripeWebhook(S, v)

Spec == Init /\ [][Next]_vars

(***************************************************************************)
(* Concurrent deliveries: the workers of the FastAPI application each      *)
(* handle a payment_intent.succeeded event, their steps interleaving, and  *)
(* PUT /sales/{id} changes the status of a sale.                           *)
(***************************************************************************)
NextRace ==
    \/ \E p \in Procs, P \in PaymentIntents, ok \in BOOLEAN : StripeWebhook(p, P, ok)
    \/ \E p \in Procs : HandlePaymentSuccess_CommitSale(p)
    \/ \E p \in Procs : HandlePaymentSuccess_CommitAffiliations(p)
    \/ \E id \in 1..MaxVentes, st \in Statuts : UpdateSale(id, st, UNSET)

SpecRace == Init /\ [][NextRace]_vars

(***************************************************************************)
(* Sale initiation alone: POST /sales of both applications, with bodies    *)
(* whose montant may be negative or zero.                                  *)
(***************************************************************************)
\* montant of the bodies, cents
InitiationMontants == {0 - 500, 0, 1000}

NextInitiation ==
    \/ \E m \in InitiationMontants, d \in SaleDiscounts, c \in PartyChoices :
          CreateSale(Worker, m, d, c[1], c[2])
    \/ CreateSale_Accumulate(Worker)
    \/ CreateSale_Affiliations(Worker)
    \/ \E m \in InitiationMontants, d \in SaleDiscounts, st \in Statuts, c \in PartyChoices :
          FlaskCreateSale(m, d, st, c[1], c[2])

SpecInitiation == Init /\ [][NextInitiation]_vars

(***************************************************************************)
(* The partner tables alone: they start empty and receive creations and    *)
(* updates.                                                                *)
(***************************************************************************)
InitPartners ==
    /\ ventes = << >>
    /\ nextId = 1
    /\ affiliations = EmptyBag
    /\ lifetime_value = 0
    /\ total_revenue = 0
    /\ req = [p \in Procs |-> Idle]
    /\ response = "none"
    /\ settled = {}
    /\ replayed = {}
    /\ calc = NoCall
    /\ commerciaux = << >>
    /\ partenaires = << >>

NextPartners ==
    \/ \E pct \in PourcentageChoices : create_commercial(pct)
    \/ \E id \in 1..MaxPartners, in_data \in BOOLEAN, pct \in PourcentageChoices :
          update_commercial(id, in_data, pct)
    \/ \E pct \in PourcentageChoices : create_partenaire(pct)
    \/ \E id \in 1..MaxPartners, in_data \in BOOLEAN, pct \in PourcentageChoices :
          update_partenaire(id, in_data, pct)

SpecPartners == InitPartners /\ [][NextPartners]_vars

(***************************************************************************)
(* The commission calculators alone: a call with arguments drawn from      *)
(* bounded sets, then its result.                                          *)
(***************************************************************************)
\* amounts and discounts in cents, stored pourcentages in hundredths of a percent
CalcMontants == 0..MaxMontant \cup {1001, 10000}
CalcDiscounts == {0, 7, 2000}
CalcPourcentages == {0, 250, 500, 1500, 2000, 3333}

\* party ids of a call: none, the id of a row, an id that names no row (its
\* stored pourcentage is then 0)
CalcIds == {0, 1, MissingId}

InitCalc ==
    /\ ventes = << >>
    /\ nextId = 1
    /\ affiliations = EmptyBag
    /\ lifetime_value = 0
    /\ total_revenue = 0
    /\ req = [p \in Procs |-> Idle]
    /\ response = "none"
    /\ settled = {}
    /\ replayed = {}
    /\ commerciaux = [id \in CommercialIds |-> CommercialPourcentage(id)]
    /\ partenaires = [id \in PartenaireIds |-> PartenairePourcentage(id)]
    /\ \E m \in CalcMontants, d \in CalcDiscounts, c \in CalcIds, q \in CalcIds,
          cp \in CalcPourcentages, qp \in CalcPourcentages :
          /\ c = MissingId => cp = 0
          /\ q = MissingId => qp = 0
          /\ calc = [NoCall EXCEPT !.montant = m, !.discount = d, !.commercial_id = c,
                                !.partenaire_id = q, !.commercial_pct = cp,
                                !.partenaire_pct = qp]

\* routes/sales_routes.py calculate_commissions(conn, montant, commercial_id,
\* partenaire_id); results in cents
CallCalculateCommissions ==
    /\ calc.fn = "none"
    /\ LET r == calculate_commissions(calc.montant, calc.commercial_id, calc.partenaire_id,
                    calc.commercial_pct, calc.partenaire_pct)
       IN  calc' = [calc EXCEPT !.fn = "calculate_commissions",
                                !.plateforme = r.plateforme,
                                !.commerciale = r.commerciale,
                                !.partenaire = r.partenaire,
                                !.freelance = r.freelance]
    /\ UNCHANGED <<ventes, nextId, affiliations, lifetime_value, total_revenue, req,
                   response, settled, replayed, commerciaux, partenaires>>

\* utils/stripe.py calculate_commissions_with_partners, called as the FastAPI
\* endpoints call it (a rate only for a party that is given); results in micro units
CallCalculateCommissionsWithPartners ==
    /\ calc.fn = "none"
    /\ LET r == calculate_commissions_with_partners(calc.montant, calc.discount,
                    IF calc.commercial_id # 0 THEN calc.commercial_pct ELSE 0,
                    IF calc.partenaire_id # 0 THEN calc.partenaire_pct ELSE 0)
       IN  calc' = [calc EXCEPT !.fn = "calculate_commissions_with_partners",
                                !.plateforme = r.platform_fee,
                                !.commerciale = r.commercial_commission,
                                !.partenaire = r.partner_commission,
                                !.freelance = r.net_amount]
    /\ UNCHANGED <<ventes, nextId, affiliations, lifetime_value, total_revenue, req,
                   response, settled, replayed, commerciaux, partenaires>>

\* int(x * 100) of a Decimal amount x given in micro units: truncation to cents
IntCents(n) == Sign(n) * (Abs(n) \div Micro)

\* routers/stripe.py create_stripe_payment_intent, freelancer, product and
\* client existing: the rates of the parties whose row exists, the
\* commissions, stripe.PaymentIntent.create with their sum as application
\* fee (Stripe refuses a negative fee: StripeError, answered 400).  The
\* stored pourcentage of an existing row is a number here, 0 included.
CallCreateStripePaymentIntent ==
    /\ calc.fn = "none"
    /\ LET commission_data ==
               calculate_commissions_with_partners(calc.montant, calc.discount,
                   IF calc.commercial_id \in CommercialIds THEN calc.commercial_pct ELSE 0,
                   IF calc.partenaire_id \in PartenaireIds THEN calc.partenaire_pct ELSE 0)
           fee_cents == IntCents(commission_data.platform_fee
                                    + commission_data.commercial_commission
                                    + commission_data.partner_commission)
       IN  IF fee_cents < 0
             THEN /\ response' = "bad_request"
                  /\ calc' = [calc EXCEPT !.fn = "create_stripe_payment_intent"]
             ELSE /\ response' = "success"
                  /\ calc' = [calc EXCEPT !.fn = "create_stripe_payment_intent",
                                           !.plateforme = commission_data.platform_fee,
                                           !.commerciale = commission_data.commercial_commission,
                                           !.partenaire = commission_data.partner_commission,
                                           !.freelance = commission_data.net_amount,
                                           !.application_fee_amount = fee_cents]
    /\ UNCHANGED <<ventes, nextId, affiliations, lifetime_value, total_revenue, req,
                   settled, replayed, commerciaux, partenaires>>

\* routers/stripe.py handle_payment_success for the intent of the initiation
\* under observation, the parties' rows unchanged: amount is the intent's
\* amount (the gross amount of the initiation, in cents), the commissions are
\* computed from it without a discount and stored on the Vente, in cents
CallHandlePaymentSuccess ==
    /\ calc.fn = "create_stripe_payment_intent"
    /\ response = "success"
    /\ LET amount == calc.montant
           commission_data ==
               calculate_commissions_with_partners(amount, 0,
                   IF calc.commercial_id \in CommercialIds THEN calc.commercial_pct ELSE 0,
                   IF calc.partenaire_id \in PartenaireIds THEN calc.partenaire_pct ELSE 0)
       IN  calc' = [calc EXCEPT
                      !.fn = "handle_payment_success",
                      !.settled_plateforme = StoreNumeric(commission_data.platform_fee, Micro),
                      !.settled_commerciale =
                          StoreNumeric(commission_data.commercial_commission, Micro),
                      !.settled_partenaire =
                          StoreNumeric(commission_data.partner_commission, Micro)]
    /\ UNCHANGED <<ventes, nextId, affiliations, lifetime_value, total_revenue, req,
                   response, settled, replayed, commerciaux, partenaires>>

NextCalc ==
    \/ CallCalculateCommissions
    \/ CallCalculateCommissionsWithPartners
    \/ CallCreateStripePaymentIntent
    \/ CallHandlePaymentSuccess

SpecCalc == InitCalc /\ [][NextCalc]_vars

(***************************************************************************)
(* Properties.                                                             *)
(***************************************************************************)
\* rows of the table v carrying the payment reference ref
RefRows(v, ref) == {id \in DOMAIN v : v[id].stripe_payment_id = ref}

\* number of affiliation rows of a sale with a source type
Entries(sale_id, source_type) ==
    Cardinality({a \in BagToSet(affiliations) :
                    a.vente_id = sale_id /\ a.source_type = source_type})

C4_FlaskReplayIsNoOp ==
    [][ \A S \in CheckoutSessions, v \in Verifications :
            (RefRows(ventes, S) # {} /\ FlaskStripeWebhook(S, v)) => ventes' = ventes ]_vars

\* the edges of the sale state machine
LegalEdges == {<<"en_attente", "paye">>, <<"paye", "rembourse">>}

\* C5: every change of the statut_paiement of a row follows a legal edge.
C5_LegalTransitions ==
    [][ \A id \in DOMAIN ventes \cap DOMAIN ventes' :
            ventes'[id].statut_paiement # ventes[id].statut_paiement =>
                <<ventes[id].statut_paiement, ventes'[id].statut_paiement>> \in LegalEdges
      ]_vars

\* C6: update_sale with another payment reference on a paid row that has a
\* reference answers a conflict and leaves the reference as it was.
C6_RebindIsConflict ==
    [][ \A id \in DOMAIN ventes, st \in StatutChoices, ref \in PaymentRefs :
            ( /\ ventes[id].statut_paiement = "paye"
              /\ ventes[id].stripe_payment_id # NULL
              /\ ventes[id].stripe_payment_id # ref
              /\ UpdateSale(id, st, ref) )
            => ( /\ response' = "conflict"
                 /\ ventes'[id].stripe_payment_id = ventes[id].stripe_payment_id ) ]_vars

\* C7: no two rows share a non-null stripe_payment_id.
C7_UniqueReference ==
    \A i, j \in DOMAIN ventes :
        (i # j /\ ventes[i].stripe_payment_id # NULL) =>
            ventes[i].stripe_payment_id # ventes[j].stripe_payment_id

\* the rows that are paye after a step and were not (or did not exist) before it
BecomePaid ==
    {id \in DOMAIN ventes' :
        /\ ventes'[id].statut_paiement = "paye"
        /\ id \in DOMAIN ventes => ventes[id].statut_paiement # "paye"}

\* C8: both accumulators change only in a step that moves a row to paye
\* (creating a row in en_attente leaves them unchanged), and a webhook
\* delivery that moves an existing row to paye increments both.
C8_AccumulatedWhenPaid ==
    [][ /\ (lifetime_value' # lifetime_value \/ total_revenue' # total_revenue)
            => BecomePaid # {}
        /\ \A p \in Procs, P \in PaymentIntents :
            (StripeWebhook(p, P, TRUE) /\ BecomePaid # {})
                => (lifetime_value' > lifetime_value /\ total_revenue' > total_revenue)
      ]_vars

\* C9: a row has affiliation entries only if it is paye, and a paye row has
\* exactly one commercial entry iff its commercial_id is set and exactly one
\* partenaire entry iff its partenaire_id is set, each with the commission
\* of the row.
C9_EntriesOfPaidSales ==
    /\ \A a \in BagToSet(affiliations) :
            /\ a.vente_id \in DOMAIN ventes
            /\ ventes[a.vente_id].statut_paiement = "paye"
            /\ a.commission = IF a.source_type = "commercial"
                                THEN ventes[a.vente_id].commission_commerciale
                                ELSE ventes[a.vente_id].commission_partenaire
    /\ \A id \in DOMAIN ventes :
            ventes[id].statut_paiement = "paye" =>
                /\ Entries(id, "commercial") = IF ventes[id].commercial_id # 0 THEN 1 ELSE 0
                /\ Entries(id, "partenaire") = IF ventes[id].partenaire_id # 0 THEN 1 ELSE 0

\* C10: the four values calculate_commissions returns sum to the amount it
\* was given, to the cent.
C10_FlaskSumIsExact ==
    calc.fn = "calculate_commissions" =>
        calc.plateforme + calc.commerciale + calc.partenaire + calc.freelance = calc.montant

\* the platform rate of the referral-presence tier table, in hundredths of a
\* percent: 15 % without referral party, 10 % with a commercial only, 13 %
\* with a partner only, 8 % with both
TierRate(commercial_id, partenaire_id) ==
    IF commercial_id # 0 /\ partenaire_id # 0 THEN 800
    ELSE IF commercial_id # 0 THEN 1000
    ELSE IF partenaire_id # 0 THEN 1300
    ELSE 1500

\* C11: the platform fee calculate_commissions_with_partners returns is the
\* discounted amount times the rate of the tier of the parties it was called
\* for.
C11_PartnersTierTable ==
    calc.fn = "calculate_commissions_with_partners" =>
        calc.plateforme =
            (calc.montant - calc.discount) * TierRate(calc.commercial_id, calc.partenaire_id)

\* C12: the platform commission calculate_commissions returns is the amount
\* times the rate of the tier of the ids it was given, quantized to the cent,
\* whatever the stored pourcentages; and when each party given has the
\* default rate (no stored pourcentage), the freelancer value is 85 % of the
\* amount, quantized to the cent, in all four tiers.
C12_FlaskTierTable ==
    calc.fn = "calculate_commissions" =>
        /\ calc.plateforme =
              QuantizeHalfEven(calc.montant * TierRate(calc.commercial_id, calc.partenaire_id),
                               Micro)
        /\ ( /\ calc.commercial_id # 0 => calc.commercial_pct = 0
             /\ calc.partenaire_id # 0 => calc.partenaire_pct = 0 ) =>
              calc.freelance = QuantizeHalfEven(calc.montant * 8500, Micro)

\* C12 witness: a call for 100.00 with both parties at their default rates
\* returned 8.00 for the platform and 85.00 for the freelancer
C12_Witness ==
    /\ calc.fn = "calculate_commissions"
    /\ calc.montant = 10000
    /\ calc.commercial_id # 0 /\ calc.partenaire_id # 0
    /\ calc.commercial_pct = 0 /\ calc.partenaire_pct = 0
    /\ calc.plateforme = 800
    /\ calc.commerciale = 500
    /\ calc.partenaire = 200
    /\ calc.freelance = 8500

\* C13: called with a discount above the amount, calculate_commissions_with_partners
\* returns 0 for the platform fee, both commissions and the freelancer net.
C13_DiscountClamp ==
    (calc.fn = "calculate_commissions_with_partners" /\ calc.discount > calc.montant) =>
        /\ calc.plateforme = 0
        /\ calc.commerciale = 0
        /\ calc.partenaire = 0
        /\ calc.freelance = 0

\* n / unit rounded half-up to an integer
RoundHalfUp(n, unit) == (2 * n + unit) \div (2 * unit)

\* C14: in both calculators the platform fee and the two commissions are
\* whole cents, the platform commission of calculate_commissions being the
\* amount times the tier rate rounded half-up, and the freelancer value is
\* the net minus the three rounded values.
C14_HalfUpAndResidual ==
    /\ calc.fn = "calculate_commissions" =>
          /\ calc.plateforme =
                RoundHalfUp(calc.montant * TierRate(calc.commercial_id, calc.partenaire_id),
                            Micro)
          /\ calc.freelance =
                calc.montant - calc.plateforme - calc.commerciale - calc.partenaire
    /\ calc.fn = "calculate_commissions_with_partners" =>
          /\ calc.plateforme % Micro = 0
          /\ calc.commerciale % Micro = 0
          /\ calc.partenaire % Micro = 0
          /\ calc.freelance =
                (calc.montant - calc.discount) * Micro
                    - calc.plateforme - calc.commerciale - calc.partenaire

\* C15: the row the Flask create_sale inserts stores the commissions
\* calculate_commissions gives for montant - discount_applied.
C15_FlaskDiscountedBase ==
    [][ \A m \in SaleMontants, d \in SaleDiscounts, st \in Statuts, c \in PartyChoices :
            (FlaskCreateSale(m, d, st, c[1], c[2]) /\ nextId' = nextId + 1) =>
                LET on_net == calculate_commissions(m - d, c[1], c[2],
                                  StoredCommercialPct(c[1]), StoredPartenairePct(c[2]))
                    row == ventes'[nextId]
                IN  /\ row.commission_plateforme = on_net.plateforme
                    /\ row.commission_commerciale = on_net.commerciale
                    /\ row.commission_partenaire = on_net.partenaire
                    /\ row.montant_net_freelance = on_net.freelance ]_vars

\* the tables and accumulators of the database
tables == <<ventes, nextId, affiliations, lifetime_value, total_revenue>>

\* C16: a delivery whose signature was not verified against the webhook
\* secret (rejected, or let through without verification) writes nothing,
\* at either webhook endpoint.
C16_VerifiedBeforeWrite ==
    [][ /\ \A p \in Procs, P \in PaymentIntents :
              StripeWebhook(p, P, FALSE) => (UNCHANGED tables /\ req'[p].pc = "idle")
        /\ \A S \in CheckoutSessions, v \in Verifications \ {"verified"} :
              FlaskStripeWebhook(S, v) => UNCHANGED tables ]_vars

\* the answers a provider takes as an acknowledgement (HTTP 2xx)
Acknowledged == {"success", "error"}

\* C17: a delivery with an invalid signature or a malformed payload is
\* answered with an acknowledgement and changes no table, at either webhook
\* endpoint.
C17_RejectedIsAcknowledged ==
    [][ /\ \A p \in Procs, P \in PaymentIntents :
              StripeWebhook(p, P, FALSE) =>
                  (response' \in Acknowledged /\ UNCHANGED tables)
        /\ \A S \in CheckoutSessions :
              FlaskStripeWebhook(S, "rejected") =>
                  (response' \in Acknowledged /\ UNCHANGED tables) ]_vars

\* C18: the payment-intent initiation called with a commercial_id or a
\* partenaire_id that names no row answers not found.
C18_MissingPartyIsNotFound ==
    ( /\ calc.fn = "create_stripe_payment_intent"
      /\ (calc.commercial_id = MissingId \/ calc.partenaire_id = MissingId) )
        => response = "not_found"

\* C19: a row in status paye stays in the table, and delete_sale on it is
\* refused, leaving the row and its affiliation entries as they are.
C19_PaidNeverDeleted ==
    [][ \A id \in DOMAIN ventes :
            ventes[id].statut_paiement = "paye" =>
                /\ id \in DOMAIN ventes'
                /\ DeleteSale(id) =>
                      (ventes' = ventes /\ affiliations' = affiliations
                            /\ response' # "success") ]_vars

C21_CreatedPending ==
    [][ \A m \in SaleMontants, d \in SaleDiscounts, st \in Statuts, c \in PartyChoices :
            ( /\ \/ FlaskCreateSale(m, d, st, c[1], c[2])
                 \/ \E p \in Procs : CreateSale(p, m, d, c[1], c[2])
              /\ nextId' = nextId + 1 )
            => ventes'[nextId].statut_paiement = "en_attente" ]_vars

\* C22: create_sale of either application called with a negative montant
\* answers a validation error and writes nothing.
C22_NegativeGrossRejected ==
    [][ \A m \in InitiationMontants, d \in SaleDiscounts, st \in Statuts, c \in PartyChoices :
            ( /\ m < 0
              /\ \/ FlaskCreateSale(m, d, st, c[1], c[2])
                 \/ \E p \in Procs : CreateSale(p, m, d, c[1], c[2]) )
            => (response' = "validation_error" /\ UNCHANGED tables) ]_vars

\* C23: every stored commercial pourcentage lies in [0, 20] and every stored
\* partner pourcentage in [0, 15], and a creation or update that gives a
\* pourcentage outside that range changes neither table.
C23_StoredPourcentageInRange ==
    /\ [](/\ \A id \in DOMAIN commerciaux : 0 <= commerciaux[id] /\ commerciaux[id] <= 2000
          /\ \A id \in DOMAIN partenaires : 0 <= partenaires[id] /\ partenaires[id] <= 1500)
    /\ [][ \A pct \in PourcentageChoices, id \in 1..MaxPartners :
            /\ (pct < 0 \/ pct > 20000) =>
                  ((create_commercial(pct) \/ update_commercial(id, TRUE, pct))
                        => UNCHANGED <<commerciaux, partenaires>>)
            /\ (pct < 0 \/ pct > 15000) =>
                  ((create_partenaire(pct) \/ update_partenaire(id, TRUE, pct))
                        => UNCHANGED <<commerciaux, partenaires>>) ]_vars

\* C23 witness: both tables hold a row at its cap, a second commercial row
\* was created, and the last request was refused
C23_Witness ==
    /\ DOMAIN commerciaux = {1, 2}
    /\ commerciaux[1] = 2000
    /\ 1 \in DOMAIN partenaires
    /\ partenaires[1] = 1500
    /\ response = "bad_request"

C25_ZeroRatePartyEarnsNothing ==
    /\ calc.fn = "calculate_commissions" =>
          /\ (calc.commercial_id \in CommercialIds /\ calc.commercial_pct = 0) =>
                /\ calc.commerciale = 0
                /\ calc.plateforme =
                      QuantizeHalfEven(
                          calc.montant * TierRate(calc.commercial_id, calc.partenaire_id), Micro)
          /\ (calc.partenaire_id \in PartenaireIds /\ calc.partenaire_pct = 0) =>
                /\ calc.partenaire = 0
                /\ calc.plateforme =
                      QuantizeHalfEven(
                          calc.montant * TierRate(calc.commercial_id, calc.partenaire_id), Micro)
    /\ calc.fn = "calculate_commissions_with_partners" =>
          /\ (calc.commercial_id \in CommercialIds /\ calc.commercial_pct = 0) =>
                /\ calc.commerciale = 0
                /\ calc.plateforme = (calc.montant - calc.discount)
                                        * TierRate(calc.commercial_id, calc.partenaire_id)
          /\ (calc.partenaire_id \in PartenaireIds /\ calc.partenaire_pct = 0) =>
                /\ calc.partenaire = 0
                /\ calc.plateforme = (calc.montant - calc.discount)
                                        * TierRate(calc.commercial_id, calc.partenaire_id)

\* C26: on every row of ventes the platform commission, the commercial
\* commission, the partner commission and the freelancer net add up to the
\* amount less the discount applied.
C26_RowSumsToNet ==
    \A id \in DOMAIN ventes :
        ventes[id].commission_plateforme + ventes[id].commission_commerciale
            + ventes[id].commission_partenaire + ventes[id].montant_net_freelance
        = ventes[id].montant - ventes[id].discount_applied

\* the amounts of a row
Amounts(row) ==
    <<row.montant, row.discount_applied, row.commission_plateforme,
      row.commission_commerciale, row.commission_partenaire, row.montant_net_freelance>>

\* C27: no step changes the montant, the discount applied or one of the four
\* commission fields of a row that exists before and after it; update_sale
\* changes nothing on a row but its status and its payment reference, and a
\* replayed webhook nothing but the status.
C27_AmountsImmutable ==
    [][ /\ \A id \in DOMAIN ventes \cap DOMAIN ventes' :
              Amounts(ventes'[id]) = Amounts(ventes[id])
        /\ \A id \in 1..MaxVentes, st \in StatutChoices, ref \in RefChoices :
              UpdateSale(id, st, ref) =>
                  /\ DOMAIN ventes' = DOMAIN ventes
                  /\ \A i \in DOMAIN ventes :
                        [ventes'[i] EXCEPT !.statut_paiement = NULL, !.stripe_payment_id = NULL]
                        = [ventes[i] EXCEPT !.statut_paiement = NULL, !.stripe_payment_id = NULL]
        /\ \A P \in PaymentIntents, p \in Procs :
              (existing_sale(P) # {} /\ StripeWebhook(p, P, TRUE)) =>
                  /\ DOMAIN ventes' = DOMAIN ventes
                  /\ \A i \in DOMAIN ventes :
                        [ventes'[i] EXCEPT !.statut_paiement = NULL]
                        = [ventes[i] EXCEPT !.statut_paiement = NULL] ]_vars

\* C27 witness: the event of pi_1 was delivered again, and a sale created by
\* hand for 10.00 less 2.50 was given a payment reference and refunded, its
\* platform commission still 0.75
C27_Witness ==
    /\ "pi_1" \in replayed
    /\ \E id \in DOMAIN ventes :
          /\ ventes[id].source = "manuel"
          /\ ventes[id].statut_paiement = "rembourse"
          /\ ventes[id].stripe_payment_id # NULL
          /\ ventes[id].montant = 1000
          /\ ventes[id].commission_plateforme = 75

\* C28: a step that moves a row to rembourse leaves the client's lifetime
\* value, the freelancer's total revenue and the affiliation entries as they
\* were.
C28_RefundKeepsAccumulators ==
    [][ (\E id \in DOMAIN ventes \cap DOMAIN ventes' :
            /\ ventes[id].statut_paiement # "rembourse"
            /\ ventes'[id].statut_paiement = "rembourse")
        => /\ lifetime_value' = lifetime_value
           /\ total_revenue' = total_revenue
           /\ affiliations' = affiliations ]_vars

\* C28 witness: the sale settled for pi_1 was refunded; the client's lifetime
\* value still counts it and its commercial's affiliation entry is still there
C28_Witness ==
    \E id \in DOMAIN ventes :
        /\ ventes[id].source = "stripe"
        /\ ventes[id].stripe_payment_id = "pi_1"
        /\ ventes[id].statut_paiement = "rembourse"
        /\ lifetime_value = ventes[id].montant
        /\ total_revenue > 0
        /\ Entries(id, "commercial") = 1

\* C29: a row in status paye or rembourse carries a payment reference.
C29_PaidHasReference ==
    \A id \in DOMAIN ventes :
        ventes[id].statut_paiement \in {"paye", "rembourse"} =>
            ventes[id].stripe_payment_id # NULL

\* C30: called with an amount of 0 or more, a discount of 0 up to the amount,
\* a commercial rate of at most 20 % and a partner rate of at most 15 %, a
\* calculator returns a freelancer net between 0 and the net amount and fees
\* that add up to at most the net amount (the net amount of
\* calculate_commissions, which takes no discount, is the amount).
C30_FeesWithinNet ==
    ( /\ calc.montant >= 0
      /\ calc.commercial_pct <= 2000
      /\ calc.partenaire_pct <= 1500 ) =>
        /\ ( calc.fn = "calculate_commissions_with_partners"
                /\ calc.discount <= calc.montant ) =>
              /\ 0 <= calc.freelance
              /\ calc.freelance <= (calc.montant - calc.discount) * Micro
              /\ calc.plateforme + calc.commerciale + calc.partenaire
                    <= (calc.montant - calc.discount) * Micro
        /\ calc.fn = "calculate_commissions" =>
              /\ 0 <= calc.freelance
              /\ calc.freelance <= calc.montant
              /\ calc.plateforme + calc.commerciale + calc.partenaire <= calc.montant

\* C30 witness: 100.00 less 20.00 with a commercial at 20 % and a partner at
\* 15 %: fees of 36.00 and a freelancer net of 44.00
C30_Witness ==
    /\ calc.fn = "calculate_commissions_with_partners"
    /\ calc.montant = 10000 /\ calc.discount = 2000
    /\ calc.commercial_id = 1 /\ calc.commercial_pct = 2000
    /\ calc.partenaire_id = 1 /\ calc.partenaire_pct = 1500
    /\ calc.plateforme + calc.commerciale + calc.partenaire = 3600 * Micro
    /\ calc.freelance = 4400 * Micro

====
